---- MODULE Spec2Model ----
(***************************************************************************)
(* Twitch2YT: the relay supervisor of src/Twitch2YT.py as a state machine. *)
(* One control thread (Relay.start_relay and what it calls) runs against   *)
(* an environment made of the ffmpeg subprocesses, the stream resolver,    *)
(* the wall clock and the operator's interrupt key.                        *)
(***************************************************************************)
EXTENDS Integers, Sequences, FiniteSets, TLC

\* ------------------------------------------------------------- bounds
\* Subprocesses the model lets the supervisor spawn (pids 1..MaxProcs).
MaxProcs == 3
\* KeyboardInterrupts the operator delivers.
MaxInterrupts == 1
\* Entries of the mappings pick_best_stream is applied to on its own.
MaxVariants == 3
\* FFMPEG_MAX_RUNTIME in check sleeps: the model's stand-in for the source's
\* 10.5*60*60 s / 30 s = 1260. The clock counts the 30 s check sleeps.
MaxRuntimeTicks == 2

\* --------------------------------------------------- program constants
\* FFMPEG_MAX_RUNTIME, in the clock's unit.
FFMPEG_MAX_RUNTIME == MaxRuntimeTicks
\* start_ffmpeg(stream, quality, retries=3)
retries == 3
\* The last clock reading the model follows; later readings are taken to be
\* this one.
MaxTime == FFMPEG_MAX_RUNTIME + 1

Pids == 1..MaxProcs
\* None, for a subprocess handle.
NoProc == 0

\* ------------------------------------------------------------- labels
\* Quality labels by their code points, as Python compares and scans them.
Codepoints ==
    ("best"       :> <<98, 101, 115, 116>>) @@
    ("worst"      :> <<119, 111, 114, 115, 116>>) @@
    ("source"     :> <<115, 111, 117, 114, 99, 101>>) @@
    ("720p"       :> <<55, 50, 48, 112>>) @@
    ("480p"       :> <<52, 56, 48, 112>>) @@
    ("160p"       :> <<49, 54, 48, 112>>) @@
    ("1080p"      :> <<49, 48, 56, 48, 112>>) @@
    ("1080p60"    :> <<49, 48, 56, 48, 112, 54, 48>>) @@
    ("audio_only" :> <<97, 117, 100, 105, 111, 95, 111, 110, 108, 121>>) @@
    ("Audio"      :> <<65, 117, 100, 105, 111>>)

Labels == DOMAIN Codepoints

\* str.lower() on one code point (ASCII letters).
Lower(c) == IF c >= 65 /\ c <= 90 THEN c + 32 ELSE c

\* "audio" in n.lower()
HasAudio(n) ==
    LET s == Codepoints[n]
        a == Codepoints["audio_only"]
    IN  \E i \in 1..Len(s) :
            /\ i + 4 <= Len(s)
            /\ \A j \in 0..4 : Lower(s[i + j]) = a[j + 1]

\* any(c.isdigit() for c in q)
HasDigit(q) == \E i \in 1..Len(Codepoints[q]) :
                   Codepoints[q][i] >= 48 /\ Codepoints[q][i] <= 57

\* a < b as numbers would compare: the shorter string first, code points only
\* between strings of one length.
ShortLexLess(a, b) ==
    LET x == Codepoints[a]
        y == Codepoints[b]
    IN  \/ Len(x) < Len(y)
        \/ /\ Len(x) = Len(y)
           /\ \E k \in 1..Len(x) :
                  /\ \A j \in 1..(k - 1) : x[j] = y[j]
                  /\ x[k] < y[k]

\* a < b for Python strings: the first differing code point decides, a proper
\* prefix is smaller.
StrLess(a, b) ==
    LET x == Codepoints[a]
        y == Codepoints[b]
    IN  \E k \in 1..(Len(y)) :
            /\ \A j \in 1..(k - 1) : j <= Len(x) /\ x[j] = y[j]
            /\ \/ k > Len(x)
               \/ k <= Len(x) /\ x[k] < y[k]

\* The keys of a dict, in insertion order: a sequence of distinct labels.
Keys(streams) == {streams[i] : i \in 1..Len(streams)}

\* get_available_streams: the resolver's mapping without the audio variants;
\* {} when streamlink raised.
get_available_streams(raw, raised) ==
    IF raised THEN <<>>
    ELSE SelectSeq(raw, LAMBDA n : ~HasAudio(n))

\* pick_best_stream: the label it returns (the handle is the entry under it).
pick_best_stream(streams) ==
    IF "best" \in Keys(streams) THEN "best"
    ELSE LET qs == {q \in Keys(streams) : HasDigit(q)}
         IN  IF qs # {}
             THEN CHOOSE q \in qs : \A r \in qs \ {q} : StrLess(r, q)
             ELSE streams[1]

\* ------------------------------------------------------------- state
\* A variant handle: the label it was listed under and the identity of the
\* object (distinct for objects that are referenced together). None is NoStream.
NoStream == [label |-> "none", id |-> 0]
Handle(l, k) == [label |-> l, id |-> k]

\* What the resolver can list for the channel (streamlink.streams), in the
\* order it lists it.
Sources == { <<>>,
             <<"audio_only", "480p", "720p">>,
             <<"audio_only", "480p", "720p", "best">> }

\* Nothing remembered about the state before a handoff.
NoPre == [cur |-> NoProc, quality |-> "none", start |-> 0, sig |-> "none",
          afterEmpty |-> FALSE]

VARIABLES
    pc,                  \* where the control thread is
    ret,                 \* where start_new_ffmpeg's caller continues
    procState,           \* pid -> "unborn" | "alive" | "exited"
    sig,                 \* pid -> "term" while it runs on after terminate()
    nSpawned,            \* subprocesses spawned so far
    active_processes,    \* active_processes[TWITCH_USER], NoProc when unset
    current_ffmpeg,      \* Relay.current_ffmpeg
    current_quality,     \* Relay.current_quality
    start_time,          \* Relay.start_time
    stream_obj,          \* Relay.stream_obj
    last_stream_status,  \* Relay.last_stream_status
    last_upgrade_logged, \* Relay.last_upgrade_logged
    quality,             \* start_relay's local quality
    stream,              \* start_relay's local stream
    sf_stream,           \* the stream argument of the running handoff
    sf_quality,          \* the quality argument of the running handoff
    attempt,             \* start_ffmpeg's loop variable, 0 before the loop
    proc,                \* start_ffmpeg's proc / start_new_ffmpeg's new_ffmpeg
    source,              \* what the resolver lists now
    now,                 \* time.time()
    interrupts,          \* KeyboardInterrupts delivered so far
    pre,                 \* the recorded state when the running handoff began
    sf_spawned,          \* pids spawned by the running start_ffmpeg call
    emptyRun,            \* consecutive empty polls so far (capped at 2)
    offlineLogs,         \* offline lines logged in that run (capped at 2)
    onlineLogs,          \* online lines since the last offline line (capped)
    upgradeLogs,         \* upgrade lines since a poll last showed no upgrade
    urlFailed,           \* the handle whose to_url() raised in the last handoff
    handoffsThisTick     \* start_new_ffmpeg calls of the latest check tick

relayVars  == <<current_ffmpeg, current_quality, start_time, stream_obj>>
statusVars == <<last_stream_status, last_upgrade_logged>>
localVars  == <<quality, stream>>
callVars   == <<ret, sf_stream, sf_quality, attempt, proc, pre, sf_spawned,
                urlFailed>>
osVars     == <<procState, sig, nSpawned>>
envVars    == <<source, now, interrupts>>
logVars    == <<emptyRun, offlineLogs, onlineLogs, upgradeLogs>>

vars == <<pc, ret, procState, sig, nSpawned, active_processes, current_ffmpeg,
          current_quality, start_time, stream_obj, last_stream_status,
          last_upgrade_logged, quality, stream, sf_stream, sf_quality, attempt,
          proc, source, now, interrupts, pre, sf_spawned, emptyRun,
          offlineLogs, onlineLogs, upgradeLogs, urlFailed, handoffsThisTick>>

\* The identity of an object the resolver has just made: none of the handles
\* the program still refers to.
FreshId ==
    LET held == {stream.id, stream_obj.id, sf_stream.id}
    IN  CHOOSE k \in 1..4 : k \notin held /\ \A j \in 1..(k - 1) : j \in held

Alive(p) == p # NoProc /\ procState[p] = "alive"
Exited(p) == p # NoProc /\ procState[p] = "exited"

\* Relay.__init__, the module globals, and the world at start-up.
Init ==
    /\ pc = "wfs_poll"
    /\ ret = "none"
    /\ procState = [p \in Pids |-> "unborn"]
    /\ sig = [p \in Pids |-> "none"]
    /\ nSpawned = 0
    /\ active_processes = NoProc
    /\ current_ffmpeg = NoProc
    /\ current_quality = "none"
    /\ start_time = 0
    /\ stream_obj = NoStream
    /\ last_stream_status = "none"
    /\ last_upgrade_logged = FALSE
    /\ quality = "none"
    /\ stream = NoStream
    /\ sf_stream = NoStream
    /\ sf_quality = "none"
    /\ attempt = 0
    /\ proc = NoProc
    /\ source \in Sources
    /\ now = 0
    /\ interrupts = 0
    /\ pre = NoPre
    /\ sf_spawned = {}
    /\ emptyRun = 0
    /\ offlineLogs = 0
    /\ onlineLogs = 0
    /\ upgradeLogs = 0
    /\ urlFailed = NoStream
    /\ handoffsThisTick = 0

\* Popen.terminate(): SIGTERM, unless the process has exited (or p is None,
\* where the callers do not call it).
Terminate(p) == IF Alive(p) THEN [sig EXCEPT ![p] = "term"] ELSE sig

\* The log gate counters after one resolver poll: an empty poll extends the
\* run, any other ends it; logged tells whether this poll wrote an offline line.
Cap2(n) == IF n > 2 THEN 2 ELSE n
PollLogged(streams, logged) ==
    /\ emptyRun' = IF streams = <<>> THEN Cap2(emptyRun + 1) ELSE 0
    /\ offlineLogs' = IF streams = <<>>
                      THEN Cap2(offlineLogs + (IF logged THEN 1 ELSE 0))
                      ELSE 0

\* "best" in streams and self.current_quality != "best"
UpgradeCondition(streams) ==
    "best" \in Keys(streams) /\ current_quality # "best"

\* The status line counters after one resolver poll that wrote the online
\* line, the offline line (either wording), the upgrade line, or none.
StatusLogged(streams, online, offline, upgrade) ==
    /\ onlineLogs' = IF offline THEN 0
                     ELSE Cap2(onlineLogs + (IF online THEN 1 ELSE 0))
    /\ upgradeLogs' = IF UpgradeCondition(streams)
                      THEN Cap2(upgradeLogs + (IF upgrade THEN 1 ELSE 0))
                      ELSE 0

\* The call self.start_new_ffmpeg(s, q) from a place that continues at r.
CallStartNewFfmpeg(s, q, r) ==
    /\ pc' = "sf_start"
    /\ sf_stream' = s
    /\ sf_quality' = q
    /\ ret' = r
    /\ attempt' = 0
    /\ proc' = NoProc
    /\ sf_spawned' = {}
    /\ urlFailed' = NoStream
    /\ pre' = [cur |-> current_ffmpeg, quality |-> current_quality,
               start |-> start_time,
               sig |-> IF current_ffmpeg = NoProc THEN "none"
                       ELSE sig[current_ffmpeg],
               afterEmpty |-> emptyRun >= 1]

\* start_new_ffmpeg returns to its caller; its locals are gone. The tick it
\* was called from is over unless the caller goes on inside it. A handle
\* whose to_url() raised is remembered while the program still refers to it.
ReturnFromStartNewFfmpeg ==
    /\ pc' = ret
    /\ handoffsThisTick' = IF ret = "tick_poll" THEN handoffsThisTick ELSE 0
    /\ ret' = "none"
    /\ sf_stream' = NoStream
    /\ sf_quality' = "none"
    /\ attempt' = 0
    /\ proc' = NoProc
    /\ sf_spawned' = {}
    /\ pre' = NoPre
    /\ urlFailed' = IF urlFailed \in {stream, stream_obj} THEN urlFailed
                    ELSE NoStream

\* An exception leaves start_relay and everything it called: the frames and
\* their locals are gone, the tick is over.
Unwind ==
    /\ ret' = "none"
    /\ sf_stream' = NoStream
    /\ sf_quality' = "none"
    /\ attempt' = 0
    /\ proc' = NoProc
    /\ sf_spawned' = {}
    /\ pre' = NoPre
    /\ urlFailed' = NoStream
    /\ quality' = "none"
    /\ stream' = NoStream
    /\ handoffsThisTick' = 0

\* ------------------------------------------------------ wait_for_stream
\* The waiting line without its gate: written on every empty poll.
WaitingLineUngated == TRUE

\* if self.last_stream_status != "offline": the waiting line is due.
WaitingLineDue == last_stream_status # "offline"

\* if self.last_stream_status != "online": the online line is due.
OnlineLineDue == last_stream_status # "online"

\* One pass of wait_for_stream's loop body on what get_available_streams gave:
\* a variant is picked and start_relay hands it to start_new_ffmpeg, or the
\* loop goes to its 15 s sleep.
WaitForStreamOn(streams) ==
    IF streams # <<>>
    THEN /\ quality' = pick_best_stream(streams)
         /\ stream' = Handle(pick_best_stream(streams), FreshId)
         /\ last_stream_status' = "online"
         /\ CallStartNewFfmpeg(stream', quality', "tick_sleep")
         /\ PollLogged(streams, FALSE)
         /\ StatusLogged(streams, OnlineLineDue, FALSE, FALSE)
         /\ handoffsThisTick' = 0
         /\ UNCHANGED <<osVars, active_processes, relayVars, last_upgrade_logged>>
    ELSE /\ last_stream_status' = "offline"
         /\ PollLogged(streams, WaitingLineDue)
         /\ StatusLogged(streams, FALSE, WaitingLineDue, FALSE)
         /\ pc' = "wfs_sleep"
         /\ handoffsThisTick' = 0
         /\ UNCHANGED <<osVars, active_processes, relayVars, last_upgrade_logged,
                        localVars, callVars>>

WaitForStreamPoll ==
    /\ pc = "wfs_poll"
    /\ \E raised \in BOOLEAN :
           WaitForStreamOn(get_available_streams(source, raised))
    /\ UNCHANGED envVars

\* The 15 s sleep of a wait_for_stream that stops the recorded process while
\* the channel is offline.
WaitForStreamSleepRetiring ==
    /\ pc = "wfs_sleep"
    /\ pc' = "wfs_poll"
    /\ sig' = Terminate(current_ffmpeg)
    /\ UNCHANGED <<procState, nSpawned, active_processes, relayVars,
                   statusVars, localVars, callVars, envVars, logVars,
                   handoffsThisTick>>

\* time.sleep(15)
WaitForStreamSleep ==
    /\ pc = "wfs_sleep"
    /\ pc' = "wfs_poll"
    /\ UNCHANGED <<osVars, active_processes, relayVars, statusVars, localVars,
                   callVars, envVars, logVars, handoffsThisTick>>

\* --------------------------------------------------------- start_ffmpeg
\* The head of start_ffmpeg: stream.to_url(), then get_ffmpeg_path().
StartFfmpeg ==
    /\ pc = "sf_start"
    /\ \/ \* to_url raised: logged, return None
          /\ pc' = "snf_failed"
          /\ urlFailed' = sf_stream
          /\ UNCHANGED <<localVars, ret, sf_stream, sf_quality, attempt, proc,
                         pre, sf_spawned, handoffsThisTick>>
       \/ \* get_ffmpeg_path raised RuntimeError: nothing up the stack catches it
          /\ pc' = "crashed"
          /\ Unwind
       \/ \* the loop is entered with attempt = 1
          /\ pc' = "sf_popen"
          /\ attempt' = 1
          /\ UNCHANGED <<localVars, ret, sf_stream, sf_quality, proc, pre,
                         sf_spawned, urlFailed, handoffsThisTick>>
    /\ UNCHANGED <<osVars, active_processes, relayVars, statusVars, envVars,
                   logVars>>

\* subprocess.Popen(cmd, ...) and, when it returned, the locked block up to the
\* wait on the process registered before.
Popen ==
    /\ pc = "sf_popen"
    /\ \/ \* Popen raised: warning, then the back-off sleep
          /\ pc' = "sf_backoff"
          /\ UNCHANGED <<osVars, active_processes, proc, sf_spawned>>
       \/ /\ nSpawned < MaxProcs
          /\ nSpawned' = nSpawned + 1
          /\ procState' = [procState EXCEPT ![nSpawned + 1] = "alive"]
          /\ proc' = nSpawned + 1
          /\ sf_spawned' = sf_spawned \cup {nSpawned + 1}
          /\ IF active_processes # NoProc /\ active_processes # proc'
             THEN /\ sig' = Terminate(active_processes)
                  /\ pc' = "sf_wait"
                  /\ UNCHANGED active_processes
             ELSE /\ active_processes' = proc'
                  /\ pc' = "snf_ok"
                  /\ UNCHANGED sig
    /\ UNCHANGED <<relayVars, statusVars, localVars, ret, sf_stream, sf_quality,
                   attempt, pre, urlFailed, envVars, logVars, handoffsThisTick>>

\* The wait of a start_ffmpeg that registers the new process before it has
\* waited for the old one.
RetireWaitRegisteringFirst ==
    /\ pc = "sf_wait"
    /\ active_processes' = proc
    /\ pc' = IF Exited(active_processes) THEN "snf_ok" ELSE "sf_backoff"
    /\ UNCHANGED <<osVars, relayVars, statusVars, localVars, callVars, envVars,
                   logVars, handoffsThisTick>>

\* old_proc.wait(timeout=10) in start_ffmpeg: it returns once old_proc has
\* exited and the new process is registered and returned; TimeoutExpired is
\* caught by the loop's except Exception as a failed attempt.
RetireWait ==
    /\ pc = "sf_wait"
    /\ IF Exited(active_processes)
       THEN /\ active_processes' = proc
            /\ pc' = "snf_ok"
       ELSE /\ pc' = "sf_backoff"
            /\ UNCHANGED active_processes
    /\ UNCHANGED <<osVars, relayVars, statusVars, localVars, callVars, envVars,
                   logVars, handoffsThisTick>>

\* time.sleep(3) after a failed attempt, then the next attempt or return None.
Backoff ==
    /\ pc = "sf_backoff"
    /\ IF attempt < retries
       THEN /\ attempt' = attempt + 1
            /\ pc' = "sf_popen"
       ELSE /\ pc' = "snf_failed"
            /\ UNCHANGED attempt
    /\ UNCHANGED <<osVars, active_processes, relayVars, statusVars, localVars,
                   ret, sf_stream, sf_quality, proc, pre, sf_spawned, urlFailed,
                   envVars, logVars, handoffsThisTick>>

\* ---------------------------------------------------- start_new_ffmpeg
\* if not new_ffmpeg: error line, time.sleep(10), return.
HandoffFailed ==
    /\ pc = "snf_failed"
    /\ ReturnFromStartNewFfmpeg
    /\ UNCHANGED <<osVars, active_processes, relayVars, statusVars, localVars,
                   envVars, logVars>>

\* The four assignments that end start_new_ffmpeg, and its return.
Record ==
    /\ current_ffmpeg' = proc
    /\ current_quality' = sf_quality
    /\ start_time' = now
    /\ stream_obj' = sf_stream
    /\ ReturnFromStartNewFfmpeg

\* start_ffmpeg returned a process: the previous one, if another, is sent
\* terminate() and waited for; else the new one is recorded at once.
HandoffSucceeded ==
    /\ pc = "snf_ok"
    /\ IF current_ffmpeg # NoProc /\ current_ffmpeg # proc
       THEN /\ sig' = Terminate(current_ffmpeg)
            /\ pc' = "snf_wait"
            /\ UNCHANGED <<relayVars, callVars, handoffsThisTick>>
       ELSE /\ Record
            /\ UNCHANGED sig
    /\ UNCHANGED <<procState, nSpawned, active_processes, statusVars, localVars,
                   envVars, logVars>>

\* try: self.current_ffmpeg.wait(timeout=10) / except: self.current_ffmpeg.kill()
KillIfAlive(p) ==
    /\ procState' = IF Alive(p) THEN [procState EXCEPT ![p] = "exited"]
                    ELSE procState
    /\ sig' = IF Alive(p) THEN [sig EXCEPT ![p] = "none"] ELSE sig

StopPreviousWait ==
    /\ pc = "snf_wait"
    /\ KillIfAlive(current_ffmpeg)
    /\ Record
    /\ UNCHANGED <<nSpawned, active_processes, statusVars, localVars, envVars,
                   logVars>>

\* ---------------------------------------------------------- start_relay
\* The rotation without its break: the tick goes on to the upgrade check.
RotationFallsThrough == "tick_poll"

\* The ended-process check without its break: the inner loop goes on.
DiedStaysInLoop == "tick_sleep"

\* Where start_relay continues when the tick finds the process ended: break.
DiedReturn == "wfs_poll"
\* Where start_relay continues after the rotation's start_new_ffmpeg: break.
RotationReturn == "wfs_poll"
\* Where start_relay continues after the upgrade's start_new_ffmpeg: break.
UpgradeReturn == "wfs_poll"

\* if not self.last_upgrade_logged: the upgrade line is due.
UpgradeLineDue == ~last_upgrade_logged

\* elapsed > FFMPEG_MAX_RUNTIME at clock reading t
MaxRuntimeReached(t) == t - start_time > FFMPEG_MAX_RUNTIME

\* time.sleep(30), then the first two checks of the tick under self.lock: the
\* process ended (break), max runtime reached (rotation, break); else the tick
\* goes on to ask the resolver.
Tick ==
    /\ pc = "tick_sleep"
    /\ now' = IF now + 1 <= MaxTime THEN now + 1 ELSE MaxTime
    /\ IF ~Alive(current_ffmpeg)
       THEN /\ pc' = DiedReturn
            /\ handoffsThisTick' = 0
            /\ UNCHANGED callVars
       ELSE IF MaxRuntimeReached(now')
            THEN /\ CallStartNewFfmpeg(stream, quality, RotationReturn)
                 /\ handoffsThisTick' = 1
            ELSE /\ pc' = "tick_poll"
                 /\ handoffsThisTick' = 0
                 /\ UNCHANGED callVars
    /\ UNCHANGED <<osVars, active_processes, relayVars, statusVars, localVars,
                   source, interrupts, logVars>>

\* The rest of the tick on what get_available_streams gave: the upgrade to
\* "best" (handoff, break), else the flag is cleared and an empty listing ends
\* the inner loop with the offline line.
TickOn(streams) ==
    IF UpgradeCondition(streams)
    THEN /\ last_upgrade_logged' = TRUE
         /\ CallStartNewFfmpeg(Handle("best", FreshId), "best", UpgradeReturn)
         /\ handoffsThisTick' = handoffsThisTick + 1
         /\ PollLogged(streams, FALSE)
         /\ StatusLogged(streams, FALSE, FALSE, UpgradeLineDue)
         /\ UNCHANGED last_stream_status
    ELSE /\ last_upgrade_logged' = FALSE
         /\ IF streams = <<>> /\ last_stream_status # "offline"
            THEN /\ last_stream_status' = "offline"
                 /\ PollLogged(streams, TRUE)
                 /\ StatusLogged(streams, FALSE, TRUE, FALSE)
                 /\ pc' = "wfs_poll"
            ELSE /\ PollLogged(streams, FALSE)
                 /\ StatusLogged(streams, FALSE, FALSE, FALSE)
                 /\ pc' = "tick_sleep"
                 /\ UNCHANGED last_stream_status
         /\ UNCHANGED <<callVars, handoffsThisTick>>

TickPoll ==
    /\ pc = "tick_poll"
    /\ \E raised \in BOOLEAN : TickOn(get_available_streams(source, raised))
    /\ UNCHANGED <<osVars, active_processes, relayVars, localVars, envVars>>

\* ------------------------------------------------------------ __main__
\* except KeyboardInterrupt: the exit line, then terminate() on the recorded
\* process, if any, and wait() on it.
Shutdown ==
    /\ Unwind
    /\ sig' = Terminate(current_ffmpeg)
    /\ pc' = IF current_ffmpeg # NoProc THEN "shutdown_wait" ELSE "done"

\* relay.current_ffmpeg.wait(): returns when the process has exited.
ShutdownWait ==
    /\ pc = "shutdown_wait"
    /\ ~Alive(current_ffmpeg)
    /\ pc' = "done"
    /\ UNCHANGED <<osVars, active_processes, relayVars, statusVars, localVars,
                   callVars, envVars, logVars, handoffsThisTick>>

\* Where a KeyboardInterrupt can reach the control thread while it is blocked.
SwallowedIn == {"wfs_poll", "tick_poll", "snf_wait"}
PropagatesFrom == {"wfs_sleep", "tick_sleep", "sf_backoff", "snf_failed",
                   "sf_popen", "sf_wait"}
Terminal == {"done", "crashed", "aborted"}

\* The operator's interrupt. Inside get_available_streams the bare except
\* turns it into an empty listing; inside start_new_ffmpeg's wait the bare
\* except turns it into kill(); in the sleeps, Popen and start_ffmpeg's wait
\* it reaches __main__; in __main__'s own wait nothing catches it.
Interrupt ==
    /\ interrupts < MaxInterrupts
    /\ interrupts' = interrupts + 1
    /\ pc \in SwallowedIn \cup PropagatesFrom \cup {"shutdown_wait"}
    /\ pc = "sf_wait" => Alive(active_processes)
    /\ pc = "snf_wait" => Alive(current_ffmpeg)
    /\ pc = "shutdown_wait" => Alive(current_ffmpeg)
    /\ CASE pc = "wfs_poll" ->
              /\ WaitForStreamOn(<<>>)
         [] pc = "tick_poll" ->
              /\ TickOn(<<>>)
              /\ UNCHANGED <<osVars, active_processes, relayVars, localVars>>
         [] pc = "snf_wait" ->
              /\ KillIfAlive(current_ffmpeg)
              /\ Record
              /\ UNCHANGED <<nSpawned, active_processes, statusVars, localVars,
                             logVars>>
         [] pc = "shutdown_wait" ->
              /\ pc' = "aborted"
              /\ UNCHANGED <<osVars, active_processes, relayVars, statusVars,
                             localVars, callVars, logVars,
                             handoffsThisTick>>
         [] OTHER ->
              /\ Shutdown
              /\ UNCHANGED <<procState, nSpawned, active_processes, relayVars,
                             statusVars, logVars>>
    /\ UNCHANGED <<source, now>>

\* ---------------------------------------------------------- environment
\* An ffmpeg process ends: on its own, or after a signal.
ProcExit ==
    /\ pc \notin Terminal
    /\ \E p \in Pids :
           /\ Alive(p)
           /\ procState' = [procState EXCEPT ![p] = "exited"]
           /\ sig' = [sig EXCEPT ![p] = "none"]
    /\ UNCHANGED <<pc, nSpawned, active_processes, relayVars, statusVars,
                   localVars, callVars, envVars, logVars,
                   handoffsThisTick>>

\* The channel goes live, goes offline or changes what it lists. The listing
\* is read by the two polls only, so the change is taken at the places the
\* control thread passes on its way to a poll.
SourceChange ==
    /\ pc \in {"wfs_sleep", "tick_sleep", "snf_failed", "snf_ok"}
    /\ source' \in Sources \ {source}
    /\ UNCHANGED <<pc, osVars, active_processes, relayVars, statusVars,
                   localVars, callVars, now, interrupts, logVars,
                   handoffsThisTick>>

\* The control thread's own steps.
Control ==
    \/ WaitForStreamPoll
    \/ WaitForStreamSleep
    \/ StartFfmpeg
    \/ Popen
    \/ RetireWait
    \/ Backoff
    \/ HandoffFailed
    \/ HandoffSucceeded
    \/ StopPreviousWait
    \/ Tick
    \/ TickPoll
    \/ ShutdownWait

Next == Control \/ Interrupt \/ ProcExit \/ SourceChange

Spec == Init /\ [][Next]_vars

\* The control thread is never held back: it is the main thread, and each of
\* its sleeps and waits ends.
FairSpec == Spec /\ WF_vars(Control)

\* ------------------------------------------- pick_best_stream on its own
\* The dicts pick_best_stream can be given: up to MaxVariants distinct labels
\* in any insertion order, at least one.
Mappings ==
    { m \in UNION { [1..n -> Labels] : n \in 1..MaxVariants } :
          \A i, j \in 1..Len(m) : i # j => m[i] # m[j] }

\* The program at start-up, with any such dict as the resolver's listing.
PickInit ==
    /\ source \in Mappings
    /\ pc = "wfs_poll"
    /\ ret = "none"
    /\ procState = [p \in Pids |-> "unborn"]
    /\ sig = [p \in Pids |-> "none"]
    /\ nSpawned = 0
    /\ active_processes = NoProc
    /\ current_ffmpeg = NoProc
    /\ current_quality = "none"
    /\ start_time = 0
    /\ stream_obj = NoStream
    /\ last_stream_status = "none"
    /\ last_upgrade_logged = FALSE
    /\ quality = "none"
    /\ stream = NoStream
    /\ sf_stream = NoStream
    /\ sf_quality = "none"
    /\ attempt = 0
    /\ proc = NoProc
    /\ now = 0
    /\ interrupts = 0
    /\ pre = NoPre
    /\ sf_spawned = {}
    /\ emptyRun = 0
    /\ offlineLogs = 0
    /\ onlineLogs = 0
    /\ upgradeLogs = 0
    /\ urlFailed = NoStream
    /\ handoffsThisTick = 0

\* quality, stream = pick_best_stream(streams), and nothing else.
PickBestStream ==
    /\ pc = "wfs_poll"
    /\ quality' = pick_best_stream(source)
    /\ stream' = Handle(quality', FreshId)
    /\ pc' = "picked"
    /\ UNCHANGED <<osVars, active_processes, relayVars, statusVars, callVars,
                   envVars, logVars, handoffsThisTick>>

PickSpec == PickInit /\ [][PickBestStream]_vars

\* ------------------------------------------------------------- claims
Live == {p \in Pids : procState[p] = "alive"}
Offers(label) == label \in Keys(get_available_streams(source, FALSE))
ShutdownPcs == {"shutdown_wait", "done", "aborted"}

\* C1: in every reachable state at most one subprocess launched by the
\* supervisor is alive, during and after any handoff.
C1_AtMostOneLiveSubprocess == Cardinality(Live) <= 1

\* C2: an upgrade seen in RELAYING starts one handoff to "best"; and once
\* "best" is recorded, the process is alive, max runtime has not elapsed, the
\* source offers "best" and no poll has come back empty since, no further
\* handoff is started.
C2_OneHandoffPerUpgrade ==
    [][ /\ (pc = "tick_poll" /\ pc' = "sf_start")
            => (sf_quality' = "best" /\ handoffsThisTick' = 1)
        /\ (/\ pc # "sf_start"
            /\ current_quality = "best"
            /\ Alive(current_ffmpeg)
            /\ last_stream_status = "online"
            /\ Offers("best")
            /\ ~MaxRuntimeReached(now'))
            => pc' # "sf_start" ]_vars

\* C3: a check tick takes the first applicable of its actions, in the order
\* process died, max runtime elapsed, upgrade, source disappeared, and never
\* performs more than one handoff; a tick that finds max runtime elapsed
\* performs exactly one, the rotation with the session's stream and quality,
\* without asking the resolver.
C3_TickTakesFirstApplicable ==
    [][ /\ (pc = "tick_sleep" /\ pc' \notin ShutdownPcs \cup {"tick_sleep"})
            => /\ ~Alive(current_ffmpeg)
                   => (pc' = "wfs_poll" /\ handoffsThisTick' = 0)
               /\ (Alive(current_ffmpeg) /\ MaxRuntimeReached(now'))
                   => /\ pc' = "sf_start"
                      /\ handoffsThisTick' = 1
                      /\ sf_stream' = stream
                      /\ sf_quality' = quality
               /\ (Alive(current_ffmpeg) /\ ~MaxRuntimeReached(now'))
                   => (pc' = "tick_poll" /\ handoffsThisTick' = 0)
        /\ (pc = "tick_poll" /\ pc' = "sf_start")
            => (current_quality # "best" /\ sf_quality' = "best")
        /\ (pc = "tick_poll" /\ pc' = "wfs_poll")
            => (last_stream_status # "offline" /\ last_stream_status' = "offline")
        /\ handoffsThisTick' <= 1 ]_vars

\* C3 witness: the rotation of a tick in which max runtime had elapsed while
\* the upgrade was available has succeeded, as the tick's only handoff.
C3_RotationWithUpgradeAvailable ==
    /\ pc = "snf_ok"
    /\ ret = RotationReturn
    /\ handoffsThisTick = 1
    /\ MaxRuntimeReached(now)
    /\ Offers("best")
    /\ current_quality # "best"
    /\ sf_quality # "best"

\* C4: start_ffmpeg makes at most 3 launch attempts, makes no further attempt
\* once a launch has succeeded, and returns failure from its loop only after
\* exactly 3 attempts that all failed.
C4_FirstSuccessfulLaunchReturned ==
    /\ attempt <= retries
    /\ pc \in {"sf_popen", "sf_backoff", "snf_failed"} => sf_spawned = {}
    /\ (pc = "snf_failed" /\ attempt > 0) => attempt = retries

\* C5: when a handoff has failed, the subprocess recorded before it has not
\* been signalled and the recorded handle, quality and start time are what
\* they were.
C5_FailedHandoffTouchesNothing ==
    pc = "snf_failed" =>
        /\ current_ffmpeg = pre.cur
        /\ current_quality = pre.quality
        /\ start_time = pre.start
        /\ Alive(pre.cur) => sig[pre.cur] = pre.sig

\* C6: a retirement in a handoff, in start_ffmpeg or in start_new_ffmpeg,
\* completes without raising and leaves the retired subprocess exited.
C6_RetirementLeavesExited ==
    [][ /\ (pc = "sf_wait" /\ pc' \in {"snf_ok", "sf_backoff"})
            => (pc' = "snf_ok" /\ procState'[active_processes] = "exited")
        /\ (pc = "snf_wait" /\ pc' # "snf_wait")
            => procState'[current_ffmpeg] = "exited" ]_vars

\* C7: once a cancellation signal has arrived the supervisor is on its
\* shutdown path: it polls the resolver and launches no more.
C7_CancellationShutsDown == interrupts > 0 => pc \in ShutdownPcs

\* C8: the wait of the shutdown path is bounded: it can return whether or not
\* the subprocess has exited, so the supervisor ends.
C8_ShutdownWaitReturns == pc = "shutdown_wait" => ENABLED ShutdownWait

\* C9: no failure inside the control loop terminates the supervisor.
C9_NoFailureEndsTheProcess == pc # "crashed"

\* C10: in a run of consecutive empty resolver polls, over wait_for_stream
\* and the check tick together, exactly one offline line has been logged.
C10_OneOfflineLinePerRun == emptyRun >= 1 => offlineLogs = 1

\* C10 witness: a run that the check tick opened with its offline line has
\* gone on in wait_for_stream for a further empty poll.
C10_RunOfTwoEmptyPolls ==
    /\ pc = "wfs_sleep"
    /\ emptyRun = 2
    /\ offlineLogs = 1
    /\ Alive(current_ffmpeg)

\* C11: "online" is never logged twice without an offline line in between;
\* the handoff that wait_for_stream's first non-empty poll after a run of
\* empty polls leads to has one online line behind it and is for the picked
\* quality; and when it has succeeded, it launched one subprocess.
C11_OneOnlineLineOneLaunch ==
    /\ onlineLogs <= 1
    /\ (ret = "tick_sleep" /\ pre.afterEmpty)
        => /\ onlineLogs = 1
           /\ sf_quality = quality
           /\ pc = "snf_ok" => Cardinality(sf_spawned) = 1

\* C12: every upgrade the check tick attempts has exactly one upgrade line
\* behind it in the period since a poll last showed the upgrade condition
\* false: the first attempt of a period is logged, a later one is not.
C12_UpgradeLoggedOncePerPeriod ==
    [][ /\ (pc = "tick_poll" /\ pc' = "sf_start") => upgradeLogs' = 1
        /\ upgradeLogs' <= 1 ]_vars

\* The labels with a digit, from the lexicographically smallest to the
\* greatest.
DigitLabelsAscending == <<"1080p", "1080p60", "160p", "480p", "720p">>
RankOf(q) == CHOOSE i \in 1..Len(DigitLabelsAscending) :
                 DigitLabelsAscending[i] = q
DigitKeys(streams) ==
    Keys(streams) \cap {DigitLabelsAscending[i] :
                            i \in 1..Len(DigitLabelsAscending)}

\* C13: for every non-empty mapping, pick_best_stream returns the "best"
\* entry when that label is present; else the entry whose label is the
\* lexicographically greatest of those with a digit ("160p" from "160p" and
\* "1080p"); else the first entry in enumeration order.
C13_PickBestStream ==
    pc = "picked" =>
        /\ stream.label = quality
        /\ quality \in Keys(source)
        /\ "best" \in Keys(source) => quality = "best"
        /\ ("best" \notin Keys(source) /\ DigitKeys(source) # {})
            => /\ quality \in DigitKeys(source)
               /\ \A r \in DigitKeys(source) : RankOf(r) <= RankOf(quality)
        /\ ("best" \notin Keys(source) /\ DigitKeys(source) = {})
            => quality = source[1]

\* C13 witness: "160p" has been picked from "160p" and "1080p", listed after
\* a label without a digit.
C13_Picks160pOver1080p ==
    /\ pc = "picked"
    /\ source = <<"worst", "160p", "1080p">>
    /\ quality = "160p"

\* C14: when a cancellation takes the supervisor into its shutdown path, no
\* launch has been cut short: the recorded subprocess is the most recently
\* launched one (pids are given in launch order), and it has been sent
\* terminate() if alive.
C14_ShutdownRetiresLatestLaunch ==
    [][ (pc \notin ShutdownPcs /\ pc' \in ShutdownPcs)
            => /\ current_ffmpeg' = nSpawned'
               /\ Alive(current_ffmpeg') => sig'[current_ffmpeg'] = "term" ]_vars

\* A handoff is in its last part: start_ffmpeg has returned a process.
Succeeding == pc \in {"snf_ok", "snf_wait"}
\* The running handoff is the rotation: of the handoffs that return to the
\* top of start_relay, it is the one of a tick that found max runtime elapsed.
IsRotation == ret = RotationReturn /\ MaxRuntimeReached(now)

\* C15: when a rotation with the variant and quality of the session has
\* succeeded, the recorded quality is what it was, the start time is the
\* rotation time, and the supervisor is at the sleep before its next tick: it
\* neither asks the resolver nor picks a quality nor launches before it.
C15_RotationStaysInRelaying ==
    [][ (/\ Succeeding /\ ~Succeeding'
         /\ IsRotation
         /\ sf_stream = stream_obj
         /\ sf_quality = current_quality)
            => /\ current_quality' = current_quality
               /\ start_time' = now
               /\ pc' = "tick_sleep" ]_vars

\* What ends the premise "the resolver keeps returning a variant and launches
\* succeed": an empty poll, a failed launch or start, a cancellation.
PremiseBrokenPcs ==
    {"wfs_sleep", "sf_backoff", "snf_failed", "crashed"} \cup ShutdownPcs

\* C16: a check tick that finds the recorded subprocess exited, or none
\* recorded, starts no handoff and goes back to wait_for_stream; a handoff
\* that succeeds records a subprocess it launched, with the variant it was
\* given; and from wait_for_stream with the recorded subprocess not alive the
\* supervisor eventually is relaying again, with the variant wait_for_stream
\* has just returned recorded, unless a poll comes back empty, a launch fails
\* or the operator interrupts.
C16_DeadProcessIsReplaced ==
    /\ [][ /\ (/\ pc = "tick_sleep" /\ ~Alive(current_ffmpeg)
               /\ (now' # now \/ pc' \notin ShutdownPcs \cup {"tick_sleep"}))
               => (pc' = "wfs_poll" /\ handoffsThisTick' = 0
                   /\ nSpawned' = nSpawned)
           /\ (Succeeding /\ ~Succeeding' /\ pc' \notin ShutdownPcs)
               => (current_ffmpeg' \in sf_spawned /\ stream_obj' = sf_stream)
         ]_vars
    /\ (pc = "wfs_poll" /\ ~Alive(current_ffmpeg))
           ~> \/ /\ pc = "tick_sleep"
                 /\ current_ffmpeg # NoProc
                 /\ stream_obj = stream
              \/ pc \in PremiseBrokenPcs

\* C16 witness: the first tick has found the only subprocess launched so far
\* exited and has gone back to wait_for_stream, with no poll and no handoff.
C16_TickFoundProcessExited ==
    /\ pc = "wfs_poll"
    /\ now = 1
    /\ nSpawned = 1
    /\ current_ffmpeg = 1
    /\ Exited(1)
    /\ last_stream_status = "online"
    /\ ~last_upgrade_logged

\* The supervisor sends p a SIGTERM in this step.
Signals(p) == p # NoProc /\ sig[p] # "term" /\ sig'[p] = "term"

\* C17: the tick that finds the source gone goes back to wait_for_stream
\* with the recorded handle, quality and start time as they were and no
\* process signalled; wait_for_stream's polls and sleeps signal nothing; and,
\* cancellation apart, the recorded subprocess is signalled only in the step
\* in which a Popen has succeeded or after start_ffmpeg has returned one.
C17_SourceGoneLeavesProcessRunning ==
    [][ /\ (pc = "tick_poll" /\ pc' = "wfs_poll")
            => UNCHANGED <<relayVars, active_processes, osVars>>
        /\ (pc \in {"wfs_poll", "wfs_sleep"} /\ pc' \notin ShutdownPcs)
            => \A p \in Pids : ~Signals(p)
        /\ (Signals(current_ffmpeg) /\ pc' \notin ShutdownPcs)
            => \/ pc = "sf_popen" /\ nSpawned' = nSpawned + 1
               \/ pc = "snf_ok" ]_vars

\* C17 witness: the source had gone and come back after two empty polls, and
\* the launch that followed has just succeeded: only now is the subprocess
\* recorded all along sent terminate().
C17_OldProcessRetiredByLaterLaunch ==
    /\ pc = "sf_wait"
    /\ ret = "tick_sleep"
    /\ pre.afterEmpty
    /\ pre.sig = "none"
    /\ current_ffmpeg = pre.cur
    /\ current_quality = pre.quality
    /\ start_time = pre.start
    /\ Alive(current_ffmpeg)
    /\ sig[current_ffmpeg] = "term"

\* C18: when to_url() raises, start_ffmpeg returns None with no Popen and no
\* back-off, start_new_ffmpeg returns with the recorded and the registered
\* subprocess as they were, and the handoff started next is given another
\* variant than the one whose to_url() raised.
C18_UrlFailureIsNotRetried ==
    [][ /\ (pc = "sf_start" /\ pc' = "snf_failed")
            => /\ attempt' = 0
               /\ UNCHANGED <<osVars, active_processes, relayVars>>
        /\ (pc = "snf_failed" /\ attempt = 0
               /\ pc' \notin ShutdownPcs \cup {"snf_failed"})
            => /\ pc' = ret
               /\ UNCHANGED <<osVars, active_processes, relayVars>>
        /\ (pc # "sf_start" /\ pc' = "sf_start" /\ urlFailed # NoStream)
            => sf_stream' # urlFailed ]_vars

\* C19: when start_ffmpeg has returned, with a process or with None, every
\* subprocess the call spawned is the returned one or is no longer alive.
C19_NoOrphanFromStartFfmpeg ==
    /\ pc = "snf_ok" => \A p \in sf_spawned \ {proc} : ~Alive(p)
    /\ pc = "snf_failed" => \A p \in sf_spawned : ~Alive(p)

\* C20: at every wait_for_stream poll and sleep and at every check tick,
\* active_processes[TWITCH_USER] and Relay.current_ffmpeg are the same
\* subprocess, or both unset.
C20_RecordsAgree ==
    pc \in {"wfs_poll", "wfs_sleep", "tick_sleep", "tick_poll"}
        => active_processes = current_ffmpeg

\* C20 witness: after two successful handoffs and a failed one that had
\* spawned subprocess 3, both records are subprocess 2.
C20_AgreeAfterFailedHandoff ==
    /\ pc = "tick_sleep"
    /\ current_ffmpeg = 2
    /\ active_processes = 2
    /\ Alive(3)

====
